---- MODULE Spec2Model ----
(***************************************************************************)
(* A model of scripts/spec_tools/consistency_tools.py: the XML registry    *)
(* consistency checker (XMLChecker), the handle hierarchy (HandleParents,  *)
(* HandleData), the referenced-type closure (ReferencedTypes) and the two  *)
(* type <-> return-code maps (compute_type_to_codes,                       *)
(* compute_codes_requiring_type).                                          *)
(*                                                                         *)
(* Text is modelled as a sequence of tokens: an attribute "H1,H2" is       *)
(* <<"H1", ",", "H2">>, a rendered message is the sequence of its parts.   *)
(* Python's None is the empty tuple and a present value v is <<v>>.        *)
(***************************************************************************)
EXTENDS Integers, Sequences, FiniteSets, TLC

VARIABLES
    reg,                         \* entity_db.registry: typedict, cmddict, extdict, filename
    conf,                        \* constructor arguments and overridden hooks
    handle_data,                 \* HandleData: _handle_types, _ancestors, _descendants
    input_type_to_codes,         \* XMLChecker.input_type_to_codes (forward map)
    codes_requiring_input_type,  \* XMLChecker.codes_requiring_input_type (reverse map)
    referenced_input_types,      \* ReferencedTypes(db, is_input).d
    referenced_api_types,        \* ReferencedTypes(db, is_api_type).d
    fail,                        \* XMLChecker.fail
    entity,                      \* XMLChecker.entity
    elem,                        \* XMLChecker.elem
    entity_suppressions,         \* XMLChecker.entity_suppressions
    errors,                      \* XMLChecker.errors
    warnings,                    \* XMLChecker.warnings
    pc,                          \* position inside check()
    idx,                         \* index of the next entity of the running loop
    pending,                     \* entities_with_messages not yet printed
    printed,                     \* what check() has printed, one section per element
    stack,                       \* the frames of ReferencedTypes.compute in progress
    log,                         \* the calls made so far, in order: a history for the claims
    last                         \* the last call made on the checker, for the claims

vars == <<reg, conf, handle_data, input_type_to_codes, codes_requiring_input_type,
          referenced_input_types, referenced_api_types, fail, entity, elem,
          entity_suppressions, errors, warnings, pc, idx, pending, printed, stack,
          log, last>>

----------------------------------------------------------------------------
(* Python values *)

None == <<>>
Some(v) == <<v>>
IsNone(x) == x = <<>>
Val(x) == x[1]

Range(s) == {s[i] : i \in DOMAIN s}

\* All sequences over S of length 0..n.
RECURSIVE AllSeqs(_, _)
AllSeqs(S, n) ==
    IF n = 0 THEN {<<>>}
    ELSE {<<>>} \cup {<<x>> \o t : x \in S, t \in AllSeqs(S, n - 1)}

\* The sequences of AllSeqs(S, n) that repeat no element.
DistinctSeqs(S, n) ==
    {s \in AllSeqs(S, n) : \A i, j \in DOMAIN s : i /= j => s[i] /= s[j]}

\* ",".join(names): the attribute text of a list of names.
RECURSIVE CommaJoin(_)
CommaJoin(names) ==
    IF names = <<>> THEN <<>>
    ELSE IF Len(names) = 1 THEN <<names[1]>>
    ELSE <<names[1], ",">> \o CommaJoin(Tail(names))

\* str.split(','): the fields between the commas; a field with no token is "".
RECURSIVE SplitFrom(_, _)
SplitFrom(text, field) ==
    IF text = <<>> THEN <<field>>
    ELSE IF Head(text) = "," THEN <<field>> \o SplitFrom(Tail(text), "")
    ELSE SplitFrom(Tail(text), Head(text))

split(text) == SplitFrom(text, "")

----------------------------------------------------------------------------
(* data_structures.DictOfStringSets: a dict whose values are sets of strings *)

EmptyDict == <<>>

dict_get(d, k, default) == IF k \in DOMAIN d THEN d[k] ELSE default

\* DictOfStringSets.add(k, v): v joins the set at k, which is created if absent.
DictOfStringSets_add(d, k, v) ==
    IF k \in DOMAIN d THEN [d EXCEPT ![k] = @ \cup v] ELSE d @@ (k :> v)

\* dict.get(k) is falsy: the key is absent (None) or holds an empty collection.
Falsy(opt) == IsNone(opt) \/ DOMAIN Val(opt) = {}

----------------------------------------------------------------------------
(* The registry.  typedict, cmddict and extdict are ordered dicts: sequences  *)
(* of entities in declaration order.                                         *)

NoCategory == ""

FindType(typedict, name) ==
    typedict[CHOOSE i \in DOMAIN typedict : typedict[i].name = name]

TypeNames(typedict) == {typedict[i].name : i \in DOMAIN typedict}

----------------------------------------------------------------------------
(* HandleParents, HandleData *)

\* algo.RecursiveMemoize.__getitem__ on an acyclic graph: the memoized value of
\* a key is compute(key).  HandleParents.compute:
RECURSIVE HandleParents_compute(_, _)
RECURSIVE HandleParents_extend(_, _, _)

HandleParents_extend(handle_types, all_parents, parents) ==
    IF parents = <<>> THEN all_parents
    ELSE HandleParents_extend(
             handle_types,
             all_parents \o HandleParents_compute(handle_types, Head(parents)),
             Tail(parents))

\* all_parents without its repeated entries, first occurrences kept.
RECURSIVE Dedup(_, _)
Dedup(seq, seen) ==
    IF seq = <<>> THEN <<>>
    ELSE IF Head(seq) \in seen THEN Dedup(Tail(seq), seen)
    ELSE <<Head(seq)>> \o Dedup(Tail(seq), seen \cup {Head(seq)})

\* A compute that returns each ancestor once.
HandleParents_compute_dedup(handle_types, handle_type) ==
    LET immediate_parent == handle_types[handle_type].parent IN
    IF IsNone(immediate_parent) THEN <<>>
    ELSE LET immediate_parents == split(Val(immediate_parent)) IN
         Dedup(HandleParents_extend(handle_types, immediate_parents, immediate_parents), {})

HandleParents_compute(handle_types, handle_type) ==
    LET immediate_parent == handle_types[handle_type].parent IN
    IF IsNone(immediate_parent) THEN <<>>
    ELSE LET immediate_parents == split(Val(immediate_parent)) IN
         HandleParents_extend(handle_types, immediate_parents, immediate_parents)

\* HandleParents(handle_types).get_dict()
HandleParents_get_dict(handle_types) ==
    [h \in DOMAIN handle_types |-> HandleParents_compute(handle_types, h)]

CacheFields == {"_handle_types", "_ancestors", "_descendants"}

\* HandleData.__init__.  computed is a history: how often the "first time
\* requested - compute it" branch of each property has run.
NewHandleData ==
    [_handle_types |-> None, _ancestors |-> None, _descendants |-> None,
     computed |-> [f \in CacheFields |-> 0]]

\* The properties return the object with its cache filled; the value read is
\* Val of the field afterwards.
HandleData_handle_types(hd, typedict) ==
    IF Falsy(hd._handle_types)
    THEN [hd EXCEPT !._handle_types =
            Some([n \in {m \in TypeNames(typedict) :
                            FindType(typedict, m).category = "handle"}
                    |-> FindType(typedict, n)]),
                    !.computed["_handle_types"] = @ + 1]
    ELSE hd

HandleData_ancestors_dict(hd, typedict) ==
    IF Falsy(hd._ancestors)
    THEN LET hd1 == HandleData_handle_types(hd, typedict) IN
         [hd1 EXCEPT !._ancestors = Some(HandleParents_get_dict(Val(hd1._handle_types))),
                     !.computed["_ancestors"] = @ + 1]
    ELSE hd

\* A get_descendants that looks at the first ancestor only: the children.
get_descendants_first_only(handle_parents, handle) ==
    {h \in DOMAIN handle_parents :
        handle_parents[h] /= <<>> /\ handle = handle_parents[h][1]}

\* A get_descendants that counts a handle among its own descendants.
get_descendants_reflexive(handle_parents, handle) ==
    {h \in DOMAIN handle_parents : h = handle \/ handle \in Range(handle_parents[h])}

get_descendants(handle_parents, handle) ==
    {h \in DOMAIN handle_parents : handle \in Range(handle_parents[h])}

HandleData_descendants_dict(hd, typedict) ==
    IF Falsy(hd._descendants)
    THEN LET hd1 == HandleData_ancestors_dict(hd, typedict)
             handle_parents == Val(hd1._ancestors) IN
         [hd1 EXCEPT !._descendants =
            Some([h \in DOMAIN handle_parents |-> get_descendants(handle_parents, h)]),
                     !.computed["_descendants"] = @ + 1]
    ELSE hd

----------------------------------------------------------------------------
(* compute_type_to_codes, compute_codes_requiring_type *)

\* XMLChecker.add_extra_codes, the extra_op of the base class: pass.
add_extra_codes(types_to_codes) == types_to_codes

\* The codes collected for one handle.  codes.union(...) returns a new set and
\* leaves codes as it was; the value is dropped, so codes stays empty.
extra_codes_of(types_to_codes, ancestors) ==
    LET codes == {}
        ancestors_codes == {dict_get(types_to_codes, ancestors[i], {}) : i \in DOMAIN ancestors}
        dropped == codes \cup UNION ancestors_codes
    IN codes

RECURSIVE AddExtras(_, _, _)
AddExtras(types_to_codes, extra_handle_codes, todo) ==
    IF todo = {} THEN types_to_codes
    ELSE LET h == CHOOSE x \in todo : TRUE IN
         AddExtras(DictOfStringSets_add(types_to_codes, h, extra_handle_codes[h]),
                   extra_handle_codes, todo \ {h})

\* Returns the map; handle_data.ancestors_dict is read through hd.
compute_type_to_codes(hd, typedict, types_to_codes) ==
    LET t2c == add_extra_codes(types_to_codes)
        handle_ancestors == Val(HandleData_ancestors_dict(hd, typedict)._ancestors)
        extra_handle_codes ==
            [h \in DOMAIN handle_ancestors |-> extra_codes_of(t2c, handle_ancestors[h])]
    IN AddExtras(t2c, extra_handle_codes, DOMAIN extra_handle_codes)

\* out.add(code, in_type) and out.add(code, descendants) for each code of one type.
RECURSIVE AddCodes(_, _, _, _)
AddCodes(out, in_type, descendants, code_set) ==
    IF code_set = {} THEN out
    ELSE LET code == CHOOSE c \in code_set : TRUE
             out1 == DictOfStringSets_add(out, code, {in_type})
             out2 == IF ~IsNone(descendants) /\ Val(descendants) /= {}
                     THEN DictOfStringSets_add(out1, code, Val(descendants))
                     ELSE out1
         IN AddCodes(out2, in_type, descendants, code_set \ {code})

RECURSIVE InvertTypes(_, _, _, _)
InvertTypes(out, in_dict, handle_descendants, todo) ==
    IF todo = {} THEN out
    ELSE LET in_type == CHOOSE t \in todo : TRUE
             descendants == IF in_type \in DOMAIN handle_descendants
                            THEN Some(handle_descendants[in_type]) ELSE None
         IN InvertTypes(AddCodes(out, in_type, descendants, in_dict[in_type]),
                        in_dict, handle_descendants, todo \ {in_type})

compute_codes_requiring_type(hd, typedict, types_to_codes) ==
    LET in_dict == types_to_codes
        handle_descendants == Val(HandleData_descendants_dict(hd, typedict)._descendants)
    IN InvertTypes(EmptyDict, in_dict, handle_descendants, DOMAIN in_dict)

----------------------------------------------------------------------------
(* Substring tests.  A token is an atom, so "sub in token" is looked up in   *)
(* the table of the tokens the registries below are built from.              *)

Marks(token) ==
    CASE token \in {"VkInstance", "VkDevice", "VkInfo", "VkExtent", "VkA", "VkB", "VkD"}
             -> {"Vk"}
      [] token \in {"VkFlagsX"} -> {"Vk", "Flags"}
      [] token \in {"VK_ERROR_A"} -> {"_ERROR_"}
      [] OTHER -> {}

\* sub in token
In(sub, token) == sub \in Marks(token)

\* sub in text, for a marker that lies inside one token
InText(sub, text) == \E i \in DOMAIN text : text[i] = sub \/ In(sub, text[i])

\* name.startswith(prefix): the marker tables hold prefixes only for "Vk".
startswith(name, prefix) == In(prefix, name)

\* conventions.type_prefix, conventions.xml_api_name
type_prefix == "Vk"
xml_api_name == "vulkan"

\* CONST_RE = \bconst\b
CONST_RE_search(text) == \E i \in DOMAIN text : text[i] = "const"

\* ARRAY_RE = \[[^]]+\]
ARRAY_RE_search(text) ==
    \E i, j \in DOMAIN text :
        /\ text[i] = "[" /\ text[j] = "]" /\ j > i + 1
        /\ \A k \in (i + 1)..(j - 1) : text[k] /= "]"

is_api_type(member_elem) == InText(type_prefix, member_elem.text)

\* An is_input that looks for the pointer before the const qualifier.
is_input_pointer_first(member_elem) ==
    LET membertext == member_elem.text IN
    IF ~InText(type_prefix, membertext) THEN FALSE
    ELSE IF InText("*", membertext) THEN FALSE
    ELSE IF CONST_RE_search(membertext) THEN TRUE
    ELSE IF ARRAY_RE_search(membertext) THEN FALSE
    ELSE TRUE

is_input(member_elem) ==
    LET membertext == member_elem.text IN
    IF ~InText(type_prefix, membertext) THEN FALSE
    ELSE IF CONST_RE_search(membertext) THEN TRUE
    ELSE IF InText("*", membertext) THEN FALSE
    ELSE IF ARRAY_RE_search(membertext) THEN FALSE
    ELSE TRUE

Predicate(pred, member_elem) ==
    IF pred = "is_input" THEN is_input(member_elem) ELSE is_api_type(member_elem)

----------------------------------------------------------------------------
(* ReferencedTypes(RecursiveMemoize, permit_cycles=True)                     *)
(*                                                                           *)
(* d maps a key to None while its value is being computed and to <<set>>     *)
(* afterwards.  "for t in types" walks a set, whose order Python does not    *)
(* fix: every operator returns the set of outcomes [d, ret] over all orders. *)

\* EntityDB.getMemberElems: the members of a struct, the params of a command,
\* None for any other name.
getMemberElems(r, name) ==
    IF \E i \in DOMAIN r.cmddict : r.cmddict[i].name = name
    THEN Some((r.cmddict[CHOOSE i \in DOMAIN r.cmddict : r.cmddict[i].name = name]).params)
    ELSE IF \E i \in DOMAIN r.typedict :
               r.typedict[i].name = name /\ r.typedict[i].category \in {"struct", "union"}
    THEN Some(FindType(r.typedict, name).members)
    ELSE None

\* A compute that takes the types of all the members, whatever the predicate.
ReferencedTypes_types_unfiltered(r, pred, type_name) ==
    LET members == getMemberElems(r, type_name) IN
    IF IsNone(members) \/ Val(members) = <<>> THEN {}
    ELSE {Val(m.type) : m \in {x \in Range(Val(members)) : ~IsNone(x.type)}}

\* The types of compute(type_name) before its loop: the types of the members
\* that have a type element and satisfy the predicate.
ReferencedTypes_types(r, pred, type_name) ==
    LET members == getMemberElems(r, type_name) IN
    IF IsNone(members) \/ Val(members) = <<>> THEN {}
    ELSE {Val(m.type) : m \in {x \in Range(Val(members)) :
                                  ~IsNone(x.type) /\ Predicate(pred, x)}}

\* "if referenced is not None: all_types.update(referenced)"
ReferencedTypes_update(all_types, referenced) ==
    IF IsNone(referenced) THEN all_types ELSE all_types \cup Val(referenced)

RECURSIVE RecursiveMemoize_getitem(_, _, _, _)
RECURSIVE ReferencedTypes_compute(_, _, _, _)
RECURSIVE ReferencedTypes_loop(_, _, _, _, _)

\* algo.RecursiveMemoize.__getitem__
RecursiveMemoize_getitem(r, pred, d, key) ==
    IF key \in DOMAIN d THEN {[d |-> d, ret |-> d[key]]}
    ELSE {[d |-> [o.d EXCEPT ![key] = Some(o.ret)], ret |-> Some(o.ret)] :
             o \in ReferencedTypes_compute(r, pred, d @@ (key :> None), key)}

ReferencedTypes_loop(r, pred, d, todo, all_types) ==
    IF todo = {} THEN {[d |-> d, ret |-> all_types]}
    ELSE UNION {UNION {ReferencedTypes_loop(r, pred, o.d, todo \ {t},
                           ReferencedTypes_update(all_types, o.ret)) :
                       o \in RecursiveMemoize_getitem(r, pred, d, t)} :
                t \in todo}

ReferencedTypes_compute(r, pred, d, type_name) ==
    LET members == getMemberElems(r, type_name) IN
    IF IsNone(members) \/ Val(members) = <<>> THEN {[d |-> d, ret |-> {}]}
    ELSE LET types == ReferencedTypes_types(r, pred, type_name)
         IN ReferencedTypes_loop(r, pred, d, types, types)

----------------------------------------------------------------------------
(* Diagnostics: set_error_context, record_error, record_warning              *)

\* util.getElemName
getElemName(el) == el.name

\* The element of a registry entity, as the diagnostics read it.
ElemOf(info) == [name |-> info.name, sourceline |-> info.sourceline]

NoKwargs == [filename |-> None, has_elem |-> FALSE, elem |-> None]

\* " ".join(str(x) for x in args): the message is the sequence of its parts.
Render(args) == args

_prepend_sourceline_to_message(message, kwargs, self_elem, reg_filename) ==
    LET fn0 == kwargs.filename
        el == IF kwargs.has_elem THEN kwargs.elem ELSE self_elem
        sourceline == IF IsNone(fn0) /\ ~IsNone(el) THEN Val(el).sourceline ELSE None
        fn == IF IsNone(fn0) /\ ~IsNone(el) /\ ~IsNone(reg_filename)
              THEN reg_filename ELSE fn0
    IN IF IsNone(fn) /\ IsNone(sourceline) THEN message
       ELSE IF IsNone(fn) THEN <<"Line", Val(sourceline), ":">> \o message
       ELSE IF IsNone(sourceline) THEN <<Val(fn), ":">> \o message
       ELSE <<Val(fn), ":", Val(sourceline), ":">> \o message

\* The checker's diagnostic fields as one record.
Diag(f, e, w) == [fail |-> f, errors |-> e, warnings |-> w]
Ctx(en, el, sup) == [entity |-> en, elem |-> el, entity_suppressions |-> sup]

Suppressed(ctx, message) ==
    /\ ~IsNone(ctx.entity_suppressions)
    /\ Val(ctx.entity_suppressions) /= {}
    /\ message \in Val(ctx.entity_suppressions)

\* A record_error that looks the message up after it has got its prefix.
record_error_prefix_first(D, ctx, reg_filename, args, kwargs) ==
    LET message == _prepend_sourceline_to_message(Render(args), kwargs, ctx.elem, reg_filename)
    IN IF Suppressed(ctx, message) THEN D
       ELSE [D EXCEPT !.fail = TRUE,
                      !.errors = DictOfStringSets_add(D.errors, ctx.entity, {message})]

record_error(D, ctx, reg_filename, args, kwargs) ==
    LET message == Render(args) IN
    IF Suppressed(ctx, message) THEN D
    ELSE [D EXCEPT !.fail = TRUE,
                   !.errors = DictOfStringSets_add(D.errors, ctx.entity,
                       {_prepend_sourceline_to_message(message, kwargs, ctx.elem, reg_filename)})]

\* A record_warning that fails the run.
record_warning_failing(D, ctx, reg_filename, args, kwargs) ==
    LET message == Render(args) IN
    IF Suppressed(ctx, message) THEN D
    ELSE [D EXCEPT !.fail = TRUE,
                   !.warnings = DictOfStringSets_add(D.warnings, ctx.entity,
                       {_prepend_sourceline_to_message(message, kwargs, ctx.elem, reg_filename)})]

record_warning(D, ctx, reg_filename, args, kwargs) ==
    LET message == Render(args) IN
    IF Suppressed(ctx, message) THEN D
    ELSE [D EXCEPT !.warnings = DictOfStringSets_add(D.warnings, ctx.entity,
                       {_prepend_sourceline_to_message(message, kwargs, ctx.elem, reg_filename)})]

\* set_error_context(entity, elem): the new context.
set_error_context(suppressions, en, el) ==
    Ctx(en, Some(el),
        IF getElemName(el) \in DOMAIN suppressions
        THEN Some(suppressions[getElemName(el)]) ELSE None)

\* record_error for each message of a sequence, in order.
RECURSIVE record_errors(_, _, _, _)
record_errors(D, ctx, reg_filename, msgs) ==
    IF msgs = <<>> THEN D
    ELSE record_errors(record_error(D, ctx, reg_filename, Head(msgs), NoKwargs),
                       ctx, reg_filename, Tail(msgs))

----------------------------------------------------------------------------
(* Rendering of sets.  ",".join(aSet) and str(aSet) walk a set in an order   *)
(* Python does not fix; ord is the order of one run.                         *)

SetToSeq(S, ord) == LET Keep(x) == x \in S IN SelectSeq(ord, Keep)

str_set(S, ord) == IF S = {} THEN <<"set()">> ELSE <<"{">> \o SetToSeq(S, ord) \o <<"}">>

\* Some enumeration of a finite set, used where the order has no effect.
RECURSIVE Enum(_)
Enum(S) == IF S = {} THEN <<>>
           ELSE LET x == CHOOSE y \in S : TRUE IN <<x>> \o Enum(S \ {x})

Reverse(s) == [i \in DOMAIN s |-> s[Len(s) + 1 - i]]

RECURSIVE Flatten(_)
Flatten(ss) == IF ss = <<>> THEN <<>> ELSE Head(ss) \o Flatten(Tail(ss))

----------------------------------------------------------------------------
(* attributes.ExternSyncEntry, attributes.LengthEntry, util.findNamedElem    *)

\* ExternSyncEntry.parse_externsync_from_param: None without the attribute,
\* else one entry per comma-separated field.
parse_externsync_from_param(param) ==
    IF IsNone(param.externsync) THEN None
    ELSE LET fields == split(Val(param.externsync)) IN
         Some([i \in DOMAIN fields |->
                 [entirely_extern_sync |-> fields[i] = "true", member |-> fields[i]]])

\* The length fields that name no parameter.
NotAParamName == {"null-terminated", "1"}

\* LengthEntry.parse_len_from_param
parse_len_from_param(param) ==
    IF IsNone(param.len) THEN None
    ELSE LET fields == split(Val(param.len)) IN
         Some([i \in DOMAIN fields |->
                 [other_param_name |-> IF fields[i] \in NotAParamName THEN None
                                       ELSE Some(fields[i])]])

\* util.findNamedElem
findNamedElem(elems, name) ==
    IF \E i \in DOMAIN elems : getElemName(elems[i]) = name
    THEN Some(elems[CHOOSE i \in DOMAIN elems :
                        /\ getElemName(elems[i]) = name
                        /\ \A j \in 1..(i - 1) : getElemName(elems[j]) /= name])
    ELSE None

----------------------------------------------------------------------------
(* The rule bodies.  Each returns the sequence of the argument tuples it     *)
(* passes to record_error, in call order.                                    *)

\* A check_param that rejects the marker wherever it stands, alone included.
check_param_marker_anywhere(param) ==
    LET param_name == getElemName(param)
        externsyncs == parse_externsync_from_param(param)
    IN IF IsNone(externsyncs) \/ Val(externsyncs) = <<>> THEN <<>>
       ELSE LET entries == Val(externsyncs) IN
            Flatten([i \in DOMAIN entries |->
                IF entries[i].entirely_extern_sync
                THEN << <<"Comma-separated list in externsync attribute includes 'true' for",
                          param_name>> >>
                ELSE IF entries[i].member /= param_name
                     THEN << <<"externsync attribute for", param_name,
                               "refers to some other member/parameter:", entries[i].member>> >>
                     ELSE <<>>])

check_param(param) ==
    LET param_name == getElemName(param)
        externsyncs == parse_externsync_from_param(param)
    IN IF IsNone(externsyncs) \/ Val(externsyncs) = <<>> THEN <<>>
       ELSE LET entries == Val(externsyncs) IN
            Flatten([i \in DOMAIN entries |->
                IF entries[i].entirely_extern_sync
                THEN IF Len(entries) > 1
                     THEN << <<"Comma-separated list in externsync attribute includes 'true' for",
                               param_name>> >>
                     ELSE <<>>
                ELSE IF entries[i].member /= param_name
                     THEN << <<"externsync attribute for", param_name,
                               "refers to some other member/parameter:", entries[i].member>> >>
                     ELSE <<>>])

\* A length check that looks at the first entry of the attribute only.
check_len_first_entry(params, param) ==
    LET lengths == parse_len_from_param(param) IN
    IF IsNone(lengths) \/ Val(lengths) = <<>> THEN <<>>
    ELSE LET entry == Val(lengths)[1] IN
         IF IsNone(entry.other_param_name) THEN <<>>
         ELSE IF IsNone(findNamedElem(params, Val(entry.other_param_name)))
              THEN << <<"References a non-existent parameter/member in the length of",
                        getElemName(param), ":", Val(entry.other_param_name)>> >>
              ELSE <<>>

check_len(params, param) ==
    LET lengths == parse_len_from_param(param) IN
    IF IsNone(lengths) \/ Val(lengths) = <<>> THEN <<>>
    ELSE LET entries == Val(lengths) IN
         Flatten([i \in DOMAIN entries |->
             IF IsNone(entries[i].other_param_name) THEN <<>>
             ELSE IF IsNone(findNamedElem(params, Val(entries[i].other_param_name)))
                  THEN << <<"References a non-existent parameter/member in the length of",
                            getElemName(param), ":", Val(entries[i].other_param_name)>> >>
                  ELSE <<>>])

check_params(params) ==
    Flatten([i \in DOMAIN params |-> check_param(params[i]) \o check_len(params, params[i])])

check_type(name, info, category) ==
    IF category = "struct"
    THEN (IF ~startswith(name, type_prefix)
          THEN << <<"Name does not start with", type_prefix>> >> ELSE <<>>)
         \o check_params(info.members)
    ELSE IF category = "bitmask"
    THEN (IF ~In("Flags", name)
          THEN << <<"Name of bitmask doesn't include 'Flags'">> >> ELSE <<>>)
    ELSE <<>>

\* elem.get(attr) split at the commas, [] when absent or empty.
codes_attr(attr) == IF IsNone(attr) \/ Val(attr) = <<>> THEN <<>> ELSE split(Val(attr))

\* A basic check that looks at the error codes only.
check_command_return_codes_basic_errors_only(successcodes, errorcodes) ==
    LET es == Enum(errorcodes) IN
    Flatten([i \in DOMAIN es |->
                IF ~In("_ERROR_", es[i])
                THEN << <<es[i], "in errorcodes but doesn't contain _ERROR_">> >>
                ELSE <<>>])

check_command_return_codes_basic(successcodes, errorcodes) ==
    LET es == Enum(errorcodes)
        ss == Enum(successcodes)
    IN Flatten([i \in DOMAIN es |->
                   IF ~In("_ERROR_", es[i])
                   THEN << <<es[i], "in errorcodes but doesn't contain _ERROR_">> >>
                   ELSE <<>>])
       \o
       Flatten([i \in DOMAIN ss |->
                   IF In("_ERROR_", ss[i])
                   THEN << <<ss[i], "in successcodes but contain _ERROR_">> >>
                   ELSE <<>>])

\* XMLChecker.get_codes_for_command_and_type
get_codes_for_command_and_type(fwd, cmd_name, type_name) == dict_get(fwd, type_name, {})

MissingMsg(missing_codes, referenced_type, ord) ==
    <<"Missing expected return code(s)">> \o CommaJoin(SetToSeq(missing_codes, ord))
        \o <<"implied because of input of type", referenced_type>>

UnexpectedMsg(code, required_types, referenced_types, ord) ==
    <<"Unexpected return code", code, "- none of these types:">>
        \o str_set(required_types, ord)
        \o <<"found in the set of referenced types">> \o str_set(referenced_types, ord)

\* The first loop of check_command_return_codes: the codes the input types
\* imply.  fwd is input_type_to_codes.
missing_expected_codes(name, fwd, referenced_input, codes, ord) ==
    LET rs == Enum(referenced_input) IN
    Flatten([i \in DOMAIN rs |->
                LET required_codes == get_codes_for_command_and_type(fwd, name, rs[i])
                    missing_codes == required_codes \ codes
                IN IF missing_codes /= {}
                   THEN <<MissingMsg(missing_codes, rs[i], ord)>> ELSE <<>>])

\* The second loop: the codes no referenced type can provide.  rev is
\* codes_requiring_input_type.
unexpected_return_codes(rev, referenced_types, codes, ord) ==
    LET cs == Enum(codes) IN
    Flatten([i \in DOMAIN cs |->
                LET required_types == dict_get(rev, cs[i], {}) IN
                IF required_types = {} THEN <<>>
                ELSE IF referenced_types \cap required_types = {}
                     THEN <<UnexpectedMsg(cs[i], required_types, referenced_types, ord)>>
                     ELSE <<>>])

\* A check that looks for the justifying types among the input types only.
check_command_return_codes_input_only(name, fwd, rev, referenced_input, referenced_types, codes, ord) ==
    missing_expected_codes(name, fwd, referenced_input, codes, ord)
        \o unexpected_return_codes(rev, referenced_input, codes, ord)

\* referenced_input and referenced_types are the two closures of the command.
check_command_return_codes(name, fwd, rev, referenced_input, referenced_types, codes, ord) ==
    missing_expected_codes(name, fwd, referenced_input, codes, ord)
        \o unexpected_return_codes(rev, referenced_types, codes, ord)

\* XMLChecker.should_skip_checking_codes; conf.irregular holds the commands
\* for which an overriding checker returns True (the base class: none).
should_skip_checking_codes(irregular, name) == name \in irregular

\* Whether check_command reaches the in-depth check.
ReachesDeepCheck(irregular, info) ==
    /\ ~(codes_attr(info.successcodes) = <<>> /\ codes_attr(info.errorcodes) = <<>>)
    /\ ~should_skip_checking_codes(irregular, info.name)

\* An overlap check that reports every shared code.
check_codes_disjoint_per_code(successcodes_set, errorcodes_set) ==
    LET shared == Enum(successcodes_set \cap errorcodes_set) IN
    [i \in DOMAIN shared |-> <<"Has errorcodes and successcodes that overlap">>]

\* check_command: "if not successcodes_set.isdisjoint(errorcodes_set)"
check_codes_disjoint(successcodes_set, errorcodes_set) ==
    IF successcodes_set \cap errorcodes_set /= {}
    THEN << <<"Has errorcodes and successcodes that overlap">> >> ELSE <<>>

check_command(name, info, irregular, fwd, rev, referenced_input, referenced_types, ord) ==
    LET errorcodes == codes_attr(info.errorcodes)
        successcodes == codes_attr(info.successcodes)
        errorcodes_set == Range(errorcodes)
        successcodes_set == Range(successcodes)
    IN check_params(info.params) \o
       (IF successcodes = <<>> /\ errorcodes = <<>> THEN <<>>
        ELSE (IF Len(errorcodes) /= Cardinality(errorcodes_set)
              THEN << <<"Contains a duplicate in errorcodes">> >> ELSE <<>>)
          \o (IF Len(successcodes) /= Cardinality(successcodes_set)
              THEN << <<"Contains a duplicate in successcodes">> >> ELSE <<>>)
          \o check_codes_disjoint(successcodes_set, errorcodes_set)
          \o check_command_return_codes_basic(successcodes_set, errorcodes_set)
          \o (IF ~should_skip_checking_codes(irregular, name)
              THEN check_command_return_codes(name, fwd, rev, referenced_input,
                       referenced_types, successcodes_set \cup errorcodes_set, ord)
              ELSE <<>>))

\* XMLChecker.check_extension is a hook whose base body is pass.
\* conf.ext_hook = "warn" is a checker that extends it with one record_warning,
\* conf.ext_hook = "both" one that extends it with a record_error as well.
check_extension(D, ctx, reg_filename, ext_hook, name) ==
    IF ext_hook = "warn"
    THEN record_warning(D, ctx, reg_filename, <<"Extension is provisional">>, NoKwargs)
    ELSE IF ext_hook = "both"
    THEN record_warning(
             record_error(D, ctx, reg_filename, <<"Extension has no author">>, NoKwargs),
             ctx, reg_filename, <<"Extension is provisional">>, NoKwargs)
    ELSE D

----------------------------------------------------------------------------
(* The registries and configurations the checker is run on *)

\* The longest errorcodes / successcodes attribute, in codes.
MaxCodes == 2

Codes == <<"VK_B", "VK_ERROR_A">>

\* The attribute values: absent, or up to MaxCodes codes (duplicates included).
\* The checker reads the attribute as a set and a length, so one order per
\* multiset is enough.
CodeAttrs ==
    {IF cs = <<>> THEN None ELSE Some(CommaJoin([i \in DOMAIN cs |-> Codes[cs[i]]])) :
        cs \in {c \in AllSeqs(DOMAIN Codes, MaxCodes) :
                   \A i \in 1..(Len(c) - 1) : c[i] <= c[i + 1]}}

Param(n, t, txt, l, x) ==
    [name |-> n, type |-> Some(t), text |-> txt, len |-> l, externsync |-> x]

ParamFixtures ==
    << \* an input handle
       << Param("device", "VkDevice", <<"VkDevice", "device">>, None, None) >>,
       \* an input handle with no ancestor
       << Param("instance", "VkInstance", <<"VkInstance", "instance">>, None, None) >>,
       \* a const pointer to a struct: input
       << Param("pInfo", "VkInfo", <<"const", "VkInfo", "*", "pInfo">>, None, None) >>,
       \* a pointer to a handle: output, and a length that names a sibling
       << Param("count", "uint32_t", <<"uint32_t", "count">>, None, None),
          Param("pDevice", "VkDevice", <<"VkDevice", "*", "pDevice">>,
                Some(<<"count">>), Some(<<"pDevice">>)) >>,
       \* an array of handles, a dangling length and a mixed externsync list
       << Param("devs", "VkDevice", <<"VkDevice", "devs", "[", "2", "]">>,
                Some(<<"n", ",", "null-terminated">>), Some(<<"true", ",", "other">>)) >>
    >>

Handle(n, par, line) ==
    [name |-> n, category |-> "handle", parent |-> par, members |-> <<>>, sourceline |-> line]

Struct(n, ms, line) ==
    [name |-> n, category |-> "struct", parent |-> None, members |-> ms, sourceline |-> line]

Line(lxml, n) == IF lxml THEN Some(n) ELSE None

\* The type table; v is the variant of the registry.
TypeDict(v) ==
    LET lxml == (v = 1) IN
    << Handle("VkInstance", None, Line(lxml, "10")),
       Handle("VkDevice", Some(<<"VkInstance">>), Line(lxml, "11")),
       [name |-> "uint32_t", category |-> NoCategory, parent |-> None, members |-> <<>>,
        sourceline |-> Line(lxml, "12")],
       Struct("VkInfo",
              << Param("device", "VkDevice", <<"VkDevice", "device">>, None, None),
                 Param("pNext", "VkInfo", <<"const", "VkInfo", "*", "pNext">>, None, None) >>,
              Line(lxml, "13")),
       Struct(IF v = 3 THEN "Extent" ELSE "VkExtent",
              << Param("width", "uint32_t", <<"uint32_t", "width">>, None, None) >>,
              Line(lxml, "14")),
       [name |-> "VkFlagsX", category |-> "bitmask", parent |-> None, members |-> <<>>,
        sourceline |-> Line(lxml, "15")] >>

Command(n, ps, ec, sc, line) ==
    [name |-> n, params |-> ps, errorcodes |-> ec, successcodes |-> sc, sourceline |-> line]

CmdDict(v, ps, ec, sc) ==
    LET lxml == (v = 1) IN
    << Command("vkCmd", ps, ec, sc, Line(lxml, "1")),
       Command("vkAux",
               << Param("instance", "VkInstance", <<"VkInstance", "instance">>, None, None) >>,
               IF v = 2 THEN Some(<<"VK_ERROR_A">>) ELSE None,
               IF v = 2 THEN Some(<<"VK_ERROR_A">>) ELSE None,
               Line(lxml, "2")) >>

ExtDict(v) ==
    LET lxml == (v = 1) IN
    << [name |-> "VK_ext_a", supported |-> "vulkan", sourceline |-> Line(lxml, "20")],
       [name |-> "VK_ext_b", supported |-> "disabled", sourceline |-> Line(lxml, "21")] >>

RegVariants == {1, 2, 3}

Registry(v, ps, ec, sc) ==
    [typedict |-> TypeDict(v), cmddict |-> CmdDict(v, ps, ec, sc), extdict |-> ExtDict(v),
     filename |-> IF v = 1 THEN Some("vk.xml") ELSE None]

\* manual_types_to_codes, forward_only_types_to_codes, reverse_only_types_to_codes
CodeConfigs ==
    { [manual |-> ("VkDevice" :> {"VK_ERROR_A"}) @@ ("VkInstance" :> {"VK_B"}),
       forward_only |-> EmptyDict, reverse_only |-> EmptyDict],
      [manual |-> ("VkInstance" :> {"VK_ERROR_A"}),
       forward_only |-> EmptyDict, reverse_only |-> ("VkInfo" :> {"VK_B"})],
      [manual |-> EmptyDict,
       forward_only |-> ("VkInfo" :> {"VK_B"}), reverse_only |-> EmptyDict] }

OverlapMsg == <<"Has errorcodes and successcodes that overlap">>

SuppressionTables ==
    { EmptyDict,
      ("vkCmd" :> {OverlapMsg, <<"VK_B", "in errorcodes but doesn't contain _ERROR_">>})
        @@ ("Extent" :> {<<"Name does not start with", "Vk">>})
        @@ ("VK_ext_a" :> {<<"Extension is provisional">>}) }

\* The orders in which one run walks its sets of names.
NameOrder == <<"VK_B", "VK_ERROR_A", "VkDevice", "VkInfo", "VkInstance">>
SetOrders == {NameOrder, Reverse(NameOrder)}

\* XMLChecker.__init__: forward_codes and reverse_codes
RECURSIVE AddAll(_, _, _)
AddAll(d, src, todo) ==
    IF todo = {} THEN d
    ELSE LET k == CHOOSE x \in todo : TRUE IN
         AddAll(DictOfStringSets_add(d, k, src[k]), src, todo \ {k})

forward_codes(c) == AddAll(c.forward_only, c.manual, DOMAIN c.manual)
reverse_codes(c) == AddAll(c.reverse_only, c.manual, DOMAIN c.manual)

----------------------------------------------------------------------------
(* XMLChecker.check(), one action per loop iteration *)

ListOf(r, p) == IF p = "commands" THEN r.cmddict
                ELSE IF p = "types" THEN r.typedict ELSE r.extdict

\* The position of check() after iteration i of loop p.
RECURSIVE PosAfter(_, _, _)
PosAfter(r, p, i) ==
    IF i < Len(ListOf(r, p)) THEN [pc |-> p, idx |-> i + 1]
    ELSE IF p = "commands" THEN PosAfter(r, "types", 0)
    ELSE IF p = "types" THEN PosAfter(r, "extensions", 0)
    ELSE [pc |-> "collect", idx |-> 1]

Last(op, name, raised) == [op |-> op, name |-> name, raised |-> raised]

\* The state of a checker right after XMLChecker.__init__.
Constructed(r, c) ==
    /\ reg = r
    /\ conf = c
    /\ handle_data = HandleData_descendants_dict(
                         HandleData_ancestors_dict(NewHandleData, r.typedict), r.typedict)
    /\ input_type_to_codes = compute_type_to_codes(NewHandleData, r.typedict, forward_codes(c))
    /\ codes_requiring_input_type =
           compute_codes_requiring_type(NewHandleData, r.typedict, reverse_codes(c))
    /\ referenced_input_types = EmptyDict
    /\ referenced_api_types = EmptyDict
    /\ fail = FALSE
    /\ entity = None
    /\ elem = None
    /\ entity_suppressions = None
    /\ errors = EmptyDict
    /\ warnings = EmptyDict
    /\ pending = {}
    /\ printed = <<>>
    /\ stack = <<>>
    /\ log = <<>>
    /\ last = Last("init", "", <<>>)

Init ==
    \E v \in RegVariants, ps \in Range(ParamFixtures), ec \in CodeAttrs, sc \in CodeAttrs,
       cc \in CodeConfigs, sup \in SuppressionTables, irr \in {{}, {"vkCmd"}} :
        /\ Constructed(Registry(v, ps, ec, sc),
                       [manual |-> cc.manual, forward_only |-> cc.forward_only,
                        reverse_only |-> cc.reverse_only, suppressions |-> sup,
                        irregular |-> irr,
                        ext_hook |-> IF v = 1 THEN "pass"
                                     ELSE IF v = 2 THEN "warn" ELSE "both"])
        /\ pc = PosAfter(Registry(v, ps, ec, sc), "commands", 0).pc
        /\ idx = 1

SetContext(ctx) ==
    /\ entity' = Some(ctx.entity)
    /\ elem' = ctx.elem
    /\ entity_suppressions' = ctx.entity_suppressions

SetDiag(D) ==
    /\ fail' = D.fail
    /\ errors' = D.errors
    /\ warnings' = D.warnings

\* A check() that gives up its loops once an error has been recorded.
Advance_until_failure(p) ==
    /\ pc' = IF fail' THEN "collect" ELSE PosAfter(reg, p, idx).pc
    /\ idx' = IF fail' THEN 1 ELSE PosAfter(reg, p, idx).idx

Advance(p) ==
    /\ pc' = PosAfter(reg, p, idx).pc
    /\ idx' = PosAfter(reg, p, idx).idx

\* One iteration of "for name, info in self.reg.cmddict.items()".
CheckCommandStep ==
    /\ pc = "commands"
    /\ LET info == reg.cmddict[idx]
           name == info.name
           ctx == set_error_context(conf.suppressions, name, ElemOf(info))
           D == Diag(fail, errors, warnings)
       IN /\ SetContext(ctx)
          /\ IF ReachesDeepCheck(conf.irregular, info)
             THEN \E oi \in RecursiveMemoize_getitem(reg, "is_input",
                                                     referenced_input_types, name),
                     oa \in RecursiveMemoize_getitem(reg, "is_api_type",
                                                     referenced_api_types, name),
                     ord \in SetOrders :
                      LET msgs == check_command(name, info, conf.irregular,
                                      input_type_to_codes, codes_requiring_input_type,
                                      Val(oi.ret), Val(oa.ret), ord)
                      IN /\ referenced_input_types' = oi.d
                         /\ referenced_api_types' = oa.d
                         /\ SetDiag(record_errors(D, ctx, reg.filename, msgs))
                         /\ last' = Last("check_command", name, msgs)
             ELSE LET msgs == check_command(name, info, conf.irregular,
                                      input_type_to_codes, codes_requiring_input_type,
                                      {}, {}, NameOrder)
                  IN /\ UNCHANGED <<referenced_input_types, referenced_api_types>>
                     /\ SetDiag(record_errors(D, ctx, reg.filename, msgs))
                     /\ last' = Last("check_command", name, msgs)
    /\ log' = Append(log, reg.cmddict[idx].name)
    /\ Advance("commands")
    /\ UNCHANGED <<reg, conf, handle_data, input_type_to_codes,
                   codes_requiring_input_type, pending, printed, stack>>

\* One iteration of "for name, info in self.reg.typedict.items()".
CheckTypeStep ==
    /\ pc = "types"
    /\ LET info == reg.typedict[idx]
           name == info.name
           cat == info.category
           ctx == set_error_context(conf.suppressions, name, ElemOf(info))
           msgs == check_type(name, info, cat)
       IN IF cat = NoCategory
          THEN /\ UNCHANGED <<entity, elem, entity_suppressions, fail, errors, warnings,
                               log>>
               /\ last' = Last("skip_type", name, <<>>)
          ELSE /\ SetContext(ctx)
               /\ log' = Append(log, name)
               /\ SetDiag(record_errors(Diag(fail, errors, warnings), ctx, reg.filename, msgs))
               /\ last' = Last("check_type", name, msgs)
    /\ Advance("types")
    /\ UNCHANGED <<reg, conf, handle_data, input_type_to_codes, codes_requiring_input_type,
                   referenced_input_types, referenced_api_types, pending, printed, stack>>

\* One iteration of "for name, info in self.reg.extdict.items()".
CheckExtensionStep ==
    /\ pc = "extensions"
    /\ LET info == reg.extdict[idx]
           name == info.name
           ctx == set_error_context(conf.suppressions, name, ElemOf(info))
       IN IF info.supported /= xml_api_name
          THEN /\ UNCHANGED <<entity, elem, entity_suppressions, fail, errors, warnings,
                               log>>
               /\ last' = Last("skip_extension", name, <<>>)
          ELSE /\ SetContext(ctx)
               /\ log' = Append(log, name)
               /\ SetDiag(check_extension(Diag(fail, errors, warnings), ctx, reg.filename,
                                          conf.ext_hook, name))
               /\ last' = Last("check_extension", name, <<>>)
    /\ Advance("extensions")
    /\ UNCHANGED <<reg, conf, handle_data, input_type_to_codes, codes_requiring_input_type,
                   referenced_input_types, referenced_api_types, pending, printed, stack>>

\* entities_with_messages = set(self.errors.keys()).union(self.warnings.keys())
entities_with_messages(errs, warns) == DOMAIN errs \cup DOMAIN warns

CollectEntities ==
    /\ pc = "collect"
    /\ pending' = entities_with_messages(errors, warnings)
    /\ pc' = IF pending' = {} THEN "done" ELSE "report"
    /\ last' = Last("collect", "", <<>>)
    /\ UNCHANGED <<reg, conf, handle_data, input_type_to_codes, codes_requiring_input_type,
                   referenced_input_types, referenced_api_types, fail, entity, elem,
                   entity_suppressions, errors, warnings, idx, printed, stack, log>>

\* The orders in which a set of messages may be walked.
Orderings(S) == {Enum(S), Reverse(Enum(S))}

\* The lines of one section: the entity's errors, then its warnings.
SectionLines(es, ws) ==
    [i \in DOMAIN es |-> [kind |-> "Error:", m |-> es[i]]]
        \o [i \in DOMAIN ws |-> [kind |-> "Warning:", m |-> ws[i]]]

\* The entity the loop "for entity in entities_with_messages" takes next:
\* a set is walked in an order Python does not fix.
NextEntity(todo) == todo

\* One iteration of "for entity in entities_with_messages".
PrintSection ==
    /\ pc = "report"
    /\ \E e \in NextEntity(pending) :
        \E es \in Orderings(dict_get(errors, e, {})), ws \in Orderings(dict_get(warnings, e, {})) :
            /\ printed' = Append(printed, [entity |-> e, lines |-> SectionLines(es, ws)])
            /\ pending' = pending \ {e}
            /\ last' = Last("print", e, <<>>)
    /\ pc' = IF pending' = {} THEN "done" ELSE "report"
    /\ UNCHANGED <<reg, conf, handle_data, input_type_to_codes, codes_requiring_input_type,
                   referenced_input_types, referenced_api_types, fail, entity, elem,
                   entity_suppressions, errors, warnings, idx, stack, log>>

Next ==
    \/ CheckCommandStep
    \/ CheckTypeStep
    \/ CheckExtensionStep
    \/ CollectEntities
    \/ PrintSection

Spec == Init /\ [][Next]_vars

----------------------------------------------------------------------------
(* The hierarchy and the two code maps as functions of their inputs:         *)
(* SpecMaps draws a handle hierarchy and a types-to-codes dictionary and     *)
(* applies HandleData's properties and the two compute_ functions to them.   *)

\* The longest list of alternate parents of one handle.
MaxParents == 2
\* The most (type, code) associations of one types-to-codes dictionary.
MaxPairs == 2

HNames == <<"H0", "H1", "H2", "H3">>

\* The parent lists a handle may declare: none, or up to MaxParents distinct
\* handles declared before it (which keeps the parent graph acyclic).
ParentLists(i) == DistinctSeqs({HNames[j] : j \in 1..(i - 1)}, MaxParents)

\* The parent attribute of a parent list.
ParentAttr(ps) == IF ps = <<>> THEN None ELSE Some(CommaJoin(ps))

HierarchyTypeDict(parents) ==
    [i \in DOMAIN HNames |-> Handle(HNames[i], ParentAttr(parents[i]), None)]
        \o << Struct("VkInfo", <<>>, None) >>

MapTypes == Range(HNames) \cup {"VkInfo"}

\* A dictionary from a set of (type, code) pairs.
DictOfPairs(pairs) ==
    [t \in {pr[1] : pr \in pairs} |-> {pr[2] : pr \in {q \in pairs : q[1] = t}}]

TypesToCodes ==
    {DictOfPairs(ps) : ps \in {q \in SUBSET (MapTypes \X Range(Codes)) :
                                  Cardinality(q) <= MaxPairs}}

MapsConf(t2c, parents) ==
    [manual |-> t2c, forward_only |-> EmptyDict, reverse_only |-> EmptyDict,
     suppressions |-> EmptyDict, irregular |-> {}, ext_hook |-> "pass",
     parents |-> parents]

InitMaps ==
    \E p1 \in ParentLists(1), p2 \in ParentLists(2), p3 \in ParentLists(3),
       p4 \in ParentLists(4), t2c \in TypesToCodes :
      LET parents == <<p1, p2, p3, p4>> IN
        /\ reg = [typedict |-> HierarchyTypeDict(parents), cmddict |-> <<>>,
                  extdict |-> <<>>, filename |-> None]
        /\ conf = MapsConf(t2c, parents)
        /\ handle_data = NewHandleData
        /\ input_type_to_codes = None
        /\ codes_requiring_input_type = None
        /\ referenced_input_types = EmptyDict
        /\ referenced_api_types = EmptyDict
        /\ fail = FALSE
        /\ entity = None
        /\ elem = None
        /\ entity_suppressions = None
        /\ errors = EmptyDict
        /\ warnings = EmptyDict
        /\ pc = "maps"
        /\ idx = 1
        /\ pending = {}
        /\ printed = <<>>
        /\ stack = <<>>
        /\ log = <<>>
        /\ last = Last("init", "", <<>>)

MapsUnchanged ==
    UNCHANGED <<reg, conf, referenced_input_types, referenced_api_types, fail, entity,
                elem, entity_suppressions, errors, warnings, pc, idx, pending, printed,
                stack, log>>

\* handle_data.ancestors_dict
ReadAncestors ==
    /\ handle_data' = HandleData_ancestors_dict(handle_data, reg.typedict)
    /\ last' = Last("ancestors_dict", "", <<>>)
    /\ UNCHANGED <<input_type_to_codes, codes_requiring_input_type>>
    /\ MapsUnchanged

\* handle_data.descendants_dict
ReadDescendants ==
    /\ handle_data' = HandleData_descendants_dict(handle_data, reg.typedict)
    /\ last' = Last("descendants_dict", "", <<>>)
    /\ UNCHANGED <<input_type_to_codes, codes_requiring_input_type>>
    /\ MapsUnchanged

\* compute_type_to_codes(handle_data, types_to_codes, extra_op=add_extra_codes)
ComputeTypeToCodes ==
    /\ input_type_to_codes' =
           Some(compute_type_to_codes(handle_data, reg.typedict, conf.manual))
    /\ handle_data' = HandleData_ancestors_dict(handle_data, reg.typedict)
    /\ last' = Last("compute_type_to_codes", "", <<>>)
    /\ UNCHANGED codes_requiring_input_type
    /\ MapsUnchanged

\* compute_codes_requiring_type(handle_data, types_to_codes)
ComputeCodesRequiringType ==
    /\ codes_requiring_input_type' =
           Some(compute_codes_requiring_type(handle_data, reg.typedict, conf.manual))
    /\ handle_data' = HandleData_descendants_dict(handle_data, reg.typedict)
    /\ last' = Last("compute_codes_requiring_type", "", <<>>)
    /\ UNCHANGED input_type_to_codes
    /\ MapsUnchanged

NextMaps ==
    \/ ReadAncestors
    \/ ReadDescendants
    \/ ComputeTypeToCodes
    \/ ComputeCodesRequiringType

SpecMaps == InitMaps /\ [][NextMaps]_vars

----------------------------------------------------------------------------
(* The diagnostics as an interface: SpecDiag calls set_error_context,        *)
(* record_error and record_warning on one checker in any order, with the     *)
(* context set the way check() sets it (the entity and its own element).     *)

\* The most record_error / record_warning calls of one run.
MaxCalls == 3

DiagEntities == {"vkCmd", "vkAux"}

\* The argument tuples the rule bodies are called with here.
DiagArgs == {<<"Name does not start with", "Vk">>, OverlapMsg}

\* The keyword arguments: none, filename=..., elem=None.
DiagKwargs ==
    {NoKwargs,
     [filename |-> Some("appendix.adoc"), has_elem |-> FALSE, elem |-> None],
     [filename |-> None, has_elem |-> TRUE, elem |-> None]}

\* What a suppression table may hold for one entity: nothing, the text of a
\* message, or that text behind the prefix the message is stored with.
DiagSuppressed ==
    {{}, {OverlapMsg}, {<<"vk.xml", ":", "1", ":">> \o OverlapMsg}}

DiagCommand(r, name) == r.cmddict[CHOOSE i \in DOMAIN r.cmddict : r.cmddict[i].name = name]

InitDiag ==
    \E v \in {1, 2}, sup \in [DiagEntities -> DiagSuppressed] :
        /\ Constructed(Registry(v, ParamFixtures[1], None, None),
                       [manual |-> EmptyDict, forward_only |-> EmptyDict,
                        reverse_only |-> EmptyDict, suppressions |-> sup,
                        irregular |-> {}, ext_hook |-> "pass"])
        /\ pc = "diag"
        /\ idx = 0

DiagUnchanged ==
    UNCHANGED <<reg, conf, handle_data, input_type_to_codes, codes_requiring_input_type,
                referenced_input_types, referenced_api_types, pc, pending, printed,
                stack, log>>

\* self.set_error_context(entity=name, elem=info.elem)
SetErrorContext ==
    /\ \E e \in DiagEntities :
         /\ SetContext(set_error_context(conf.suppressions, e, ElemOf(DiagCommand(reg, e))))
         /\ last' = Last("set_error_context", e, <<>>)
    /\ UNCHANGED <<fail, errors, warnings, idx>>
    /\ DiagUnchanged

\* self.record_error(*args, **kwargs); a context has been set.
RecordError ==
    /\ ~IsNone(entity)
    /\ idx < MaxCalls
    /\ \E args \in DiagArgs, kwargs \in DiagKwargs :
         /\ SetDiag(record_error(Diag(fail, errors, warnings),
                                 Ctx(Val(entity), elem, entity_suppressions),
                                 reg.filename, args, kwargs))
         /\ last' = Last("record_error", Val(entity), <<args>>)
    /\ idx' = idx + 1
    /\ UNCHANGED <<entity, elem, entity_suppressions>>
    /\ DiagUnchanged

\* self.record_warning(*args, **kwargs); a context has been set.
RecordWarning ==
    /\ ~IsNone(entity)
    /\ idx < MaxCalls
    /\ \E args \in DiagArgs, kwargs \in DiagKwargs :
         /\ SetDiag(record_warning(Diag(fail, errors, warnings),
                                   Ctx(Val(entity), elem, entity_suppressions),
                                   reg.filename, args, kwargs))
         /\ last' = Last("record_warning", Val(entity), <<args>>)
    /\ idx' = idx + 1
    /\ UNCHANGED <<entity, elem, entity_suppressions>>
    /\ DiagUnchanged

NextDiag ==
    \/ SetErrorContext
    \/ RecordError
    \/ RecordWarning

SpecDiag == InitDiag /\ [][NextDiag]_vars

----------------------------------------------------------------------------
(* ReferencedTypes step by step: SpecClosure queries the two closures of a   *)
(* checker, self.referenced_input_types[e] and self.referenced_api_types[e], *)
(* on drawn struct graphs.  A call of compute is a frame on the stack: the   *)
(* key, the types still to be walked by "for t in types" and all_types.      *)

\* The most closure queries of one run.
MaxQueries == 2
\* The deepest nesting of compute calls a run may reach.
MaxDepth == 5

Predicates == {"is_input", "is_api_type"}

\* A member as declared: its name, its type, and whether the declaration is
\* const-qualified, a pointer, an array.  text is what itertext() yields.
MemberText(n, t, c, p, a) ==
    (IF c THEN <<"const">> ELSE <<>>) \o <<t>> \o (IF p THEN <<"*">> ELSE <<>>)
        \o <<n>> \o (IF a THEN <<"[", "2", "]">> ELSE <<>>)

Member(n, t, c, p, a) ==
    [name |-> n, type |-> Some(t), text |-> MemberText(n, t, c, p, a), len |-> None,
     externsync |-> None, decl |-> [const |-> c, pointer |-> p, array |-> a]]

Plain(n, t) == Member(n, t, FALSE, FALSE, FALSE)

\* The members of VkA: one of any declaration shape that references VkB or a
\* type outside the API, and at most one more, which references VkD or VkA.
MembersOfA ==
    {<<Member("m1", t, c, p, a)>> \o m2 :
        t \in {"VkB", "uint32_t"}, c \in BOOLEAN, p \in BOOLEAN, a \in BOOLEAN,
        m2 \in {<<>>, <<Plain("m2", "VkD")>>, <<Plain("m2", "VkA")>>}}

\* The members of VkB: none, a reference back to VkA, a reference to itself,
\* a non-const pointer to VkD, or that pointer beside a const pointer back to VkA.
MembersOfB ==
    {<<>>,
     <<Plain("back", "VkA")>>,
     <<Plain("self", "VkB")>>,
     <<Member("pOut", "VkD", FALSE, TRUE, FALSE)>>,
     <<Member("pBack", "VkA", TRUE, TRUE, FALSE), Member("pOut", "VkD", FALSE, TRUE, FALSE)>>}

ClosureTypeDict(ma, mb) ==
    << Struct("VkA", ma, None),
       Struct("VkB", mb, None),
       Handle("VkD", None, None),
       [name |-> "uint32_t", category |-> NoCategory, parent |-> None, members |-> <<>>,
        sourceline |-> None] >>

\* The entities whose closures are queried.
ClosureEntities == {"VkA", "VkB"}

InitClosure ==
    \E ma \in MembersOfA, mb \in MembersOfB :
        /\ Constructed([typedict |-> ClosureTypeDict(ma, mb), cmddict |-> <<>>,
                        extdict |-> <<>>, filename |-> None],
                       [manual |-> EmptyDict, forward_only |-> EmptyDict,
                        reverse_only |-> EmptyDict, suppressions |-> EmptyDict,
                        irregular |-> {}, ext_hook |-> "pass"])
        /\ pc = "closure"
        /\ idx = 0

\* The memo dictionary of the ReferencedTypes built with predicate pred.
Memo(pred) == IF pred = "is_input" THEN referenced_input_types ELSE referenced_api_types

SetMemo(pred, d) ==
    IF pred = "is_input"
    THEN referenced_input_types' = d /\ UNCHANGED referenced_api_types
    ELSE referenced_api_types' = d /\ UNCHANGED referenced_input_types

\* ReferencedTypes.__init__: super().__init__(permit_cycles=True).  Without it
\* the lookup of a key whose computation is in progress raises RuntimeError.
permit_cycles_off == FALSE

permit_cycles == TRUE

\* "referenced = self[t]" finds t in the memo dictionary (a value, or the
\* marker of a computation in progress) and does not call compute.
ReferencedTypes_memoized(d, t) == t \in DOMAIN d

\* compute(type_name) up to its loop: types and all_types.
ReferencedTypes_frame(r, pred, type_name) ==
    LET types == ReferencedTypes_types(r, pred, type_name) IN
    [pred |-> pred, key |-> type_name, todo |-> types, all_types |-> types]

Top == stack[Len(stack)]

ClosureUnchanged ==
    UNCHANGED <<reg, conf, handle_data, input_type_to_codes, codes_requiring_input_type,
                fail, entity, elem, entity_suppressions, errors, warnings, pending,
                printed>>

\* self.referenced_..._types[e], called by the checker.
ClosureQuery ==
    /\ pc = "closure"
    /\ stack = <<>>
    /\ idx < MaxQueries
    /\ \E pred \in Predicates, e \in ClosureEntities :
         LET d == Memo(pred) IN
         IF ReferencedTypes_memoized(d, e)
         THEN /\ last' = Last("memoized", e, <<pred, {}>>)
              /\ UNCHANGED <<referenced_input_types, referenced_api_types, stack, log>>
         ELSE LET f == ReferencedTypes_frame(reg, pred, e) IN
              /\ SetMemo(pred, d @@ (e :> None))
              /\ stack' = <<f>>
              /\ log' = Append(log, <<pred, e>>)
              /\ last' = Last("compute", e, <<pred, f.todo>>)
    /\ idx' = idx + 1
    /\ UNCHANGED pc
    /\ ClosureUnchanged

\* One iteration of "for t in types" in the running compute.
ClosureStep ==
    /\ pc = "closure"
    /\ stack /= <<>>
    /\ Top.todo /= {}
    /\ \E t \in Top.todo :
         LET f == Top
             d == Memo(f.pred)
             rest == [stack EXCEPT ![Len(stack)].todo = @ \ {t}]
         IN IF ReferencedTypes_memoized(d, t)
            THEN IF IsNone(d[t]) /\ ~permit_cycles
                 THEN /\ pc' = "raised"
                      /\ last' = Last("RuntimeError", t, <<f.pred, {}>>)
                      /\ UNCHANGED <<referenced_input_types, referenced_api_types, stack,
                                     log>>
                 ELSE /\ stack' = [rest EXCEPT ![Len(stack)].all_types =
                                      ReferencedTypes_update(@, d[t])]
                      /\ last' = Last("memoized", t, <<f.pred, {}>>)
                      /\ UNCHANGED <<referenced_input_types, referenced_api_types, log,
                                     pc>>
            ELSE LET g == ReferencedTypes_frame(reg, f.pred, t) IN
                 /\ Len(stack) < MaxDepth
                 /\ SetMemo(f.pred, d @@ (t :> None))
                 /\ stack' = Append(rest, g)
                 /\ log' = Append(log, <<f.pred, t>>)
                 /\ last' = Last("compute", t, <<f.pred, g.todo>>)
                 /\ UNCHANGED pc
    /\ UNCHANGED idx
    /\ ClosureUnchanged

\* "return all_types": the value is memoized and handed to the caller.
ClosureReturn ==
    /\ pc = "closure"
    /\ stack /= <<>>
    /\ Top.todo = {}
    /\ LET f == Top
           callers == SubSeq(stack, 1, Len(stack) - 1)
       IN /\ SetMemo(f.pred, [Memo(f.pred) EXCEPT ![f.key] = Some(f.all_types)])
          /\ stack' = IF callers = <<>> THEN <<>>
                      ELSE [callers EXCEPT ![Len(callers)].all_types =
                               ReferencedTypes_update(@, Some(f.all_types))]
          /\ last' = Last("return", f.key, <<f.pred, f.all_types>>)
    /\ UNCHANGED <<idx, log, pc>>
    /\ ClosureUnchanged

NextClosure ==
    \/ ClosureQuery
    \/ ClosureStep
    \/ ClosureReturn

\* check() is single-threaded and runs to completion: a compute that has been
\* called goes on until it returns.
SpecClosure ==
    InitClosure /\ [][NextClosure]_vars /\ WF_vars(ClosureStep \/ ClosureReturn)

----------------------------------------------------------------------------
(* check() on drawn annotations: SpecParams runs check() on registries whose *)
(* command or struct has two parameters/members, "count" and "pB", with      *)
(* drawn externsync and len attributes.                                      *)

\* The most comma-separated fields of one externsync or len attribute.
MaxFields == 2

\* The attributes built from the fields of F: absent, or 1..MaxFields fields.
AttrsOver(F) == {None} \cup {Some(CommaJoin(fs)) : fs \in AllSeqs(F, MaxFields) \ {<<>>}}

\* externsync of pB: the marker, its own name, another name.
ExternSyncAttrs == AttrsOver({"true", "pB", "other"})

\* len of pB: its sibling, itself, a name no sibling has, and the two forms
\* that name no parameter.
LenAttrs == AttrsOver({"count", "pB", "missing", "null-terminated", "1"})

\* externsync of count: absent, the marker alone, the name of its sibling.
CountExternSyncAttrs == {None, Some(<<"true">>), Some(<<"pB">>)}

DrawnParams(xc, l, x) ==
    << Param("count", "uint32_t", <<"uint32_t", "count">>, None, xc),
       Param("pB", "VkDevice", <<"const", "VkDevice", "*", "pB">>, l, x) >>

PlainParams == DrawnParams(None, None, None)

\* The drawn list is the params of the command or the members of the struct.
ParamsRegistry(where, ps) ==
    [typedict |-> << Handle("VkDevice", None, None),
                     [name |-> "uint32_t", category |-> NoCategory, parent |-> None,
                      members |-> <<>>, sourceline |-> None],
                     Struct("VkInfo", IF where = "struct" THEN ps ELSE PlainParams, None) >>,
     cmddict |-> << Command("vkCmd", IF where = "command" THEN ps ELSE PlainParams,
                            None, None, None) >>,
     extdict |-> ExtDict(2),
     filename |-> None]

InitParams ==
    \E where \in {"command", "struct"}, xc \in CountExternSyncAttrs,
       l \in LenAttrs, x \in ExternSyncAttrs :
        /\ Constructed(ParamsRegistry(where, DrawnParams(xc, l, x)),
                       [manual |-> EmptyDict, forward_only |-> EmptyDict,
                        reverse_only |-> EmptyDict, suppressions |-> EmptyDict,
                        irregular |-> {}, ext_hook |-> "warn"])
        /\ pc = "commands"
        /\ idx = 1

SpecParams == InitParams /\ [][Next]_vars

----------------------------------------------------------------------------
(* The caches of HandleData: SpecCache reads the three properties of one     *)
(* HandleData in any order, on registries with zero to four handle types.    *)

\* The registry with the first Len(parents) handles of HNames.
CacheTypeDict(parents) ==
    [i \in DOMAIN parents |-> Handle(HNames[i], ParentAttr(parents[i]), None)]
        \o << Struct("VkInfo", <<>>, None) >>

InitCache ==
    \E p1 \in ParentLists(1), p2 \in ParentLists(2), p3 \in ParentLists(3),
       p4 \in ParentLists(4), n \in 0..4 :
      LET parents == SubSeq(<<p1, p2, p3, p4>>, 1, n) IN
        /\ reg = [typedict |-> CacheTypeDict(parents), cmddict |-> <<>>,
                  extdict |-> <<>>, filename |-> None]
        /\ conf = MapsConf(EmptyDict, parents)
        /\ handle_data = NewHandleData
        /\ input_type_to_codes = None
        /\ codes_requiring_input_type = None
        /\ referenced_input_types = EmptyDict
        /\ referenced_api_types = EmptyDict
        /\ fail = FALSE
        /\ entity = None
        /\ elem = None
        /\ entity_suppressions = None
        /\ errors = EmptyDict
        /\ warnings = EmptyDict
        /\ pc = "cache"
        /\ idx = 0
        /\ pending = {}
        /\ printed = <<>>
        /\ stack = <<>>
        /\ log = <<>>
        /\ last = Last("init", "", <<>>)

CacheUnchanged ==
    UNCHANGED <<reg, conf, input_type_to_codes, codes_requiring_input_type,
                referenced_input_types, referenced_api_types, fail, entity, elem,
                entity_suppressions, errors, warnings, pc, pending, printed, stack, log>>

\* A read of a property; last.raised holds the HandleData as it was before.
AccessHandleTypes ==
    /\ idx < MaxQueries
    /\ handle_data' = HandleData_handle_types(handle_data, reg.typedict)
    /\ last' = Last("handle_types", "_handle_types", <<handle_data>>)
    /\ idx' = idx + 1
    /\ CacheUnchanged

AccessAncestors ==
    /\ idx < MaxQueries
    /\ handle_data' = HandleData_ancestors_dict(handle_data, reg.typedict)
    /\ last' = Last("ancestors_dict", "_ancestors", <<handle_data>>)
    /\ idx' = idx + 1
    /\ CacheUnchanged

AccessDescendants ==
    /\ idx < MaxQueries
    /\ handle_data' = HandleData_descendants_dict(handle_data, reg.typedict)
    /\ last' = Last("descendants_dict", "_descendants", <<handle_data>>)
    /\ idx' = idx + 1
    /\ CacheUnchanged

NextCache ==
    \/ AccessHandleTypes
    \/ AccessAncestors
    \/ AccessDescendants

SpecCache == InitCache /\ [][NextCache]_vars

----------------------------------------------------------------------------
(* The hierarchy as the parent lists define it, for the claims below *)

HIndex(h) == CHOOSE i \in DOMAIN HNames : HNames[i] = h

\* The handles reachable from handle i along one or more parent edges.
RECURSIVE AncestorSet(_, _)
AncestorSet(parents, i) ==
    UNION {{parents[i][k]} \cup AncestorSet(parents, HIndex(parents[i][k])) :
              k \in DOMAIN parents[i]}

\* The number of parent paths that lead from handle i to handle a.
RECURSIVE PathCount(_, _, _)
RECURSIVE PathSum(_, _, _, _)
PathSum(parents, i, a, k) ==
    IF k = 0 THEN 0
    ELSE (IF parents[i][k] = a THEN 1 ELSE 0)
         + PathCount(parents, HIndex(parents[i][k]), a)
         + PathSum(parents, i, a, k - 1)
PathCount(parents, i, a) == PathSum(parents, i, a, Len(parents[i]))

Occurrences(seq, x) == Cardinality({i \in DOMAIN seq : seq[i] = x})

----------------------------------------------------------------------------
(* Claims on the hierarchy and the code maps (SpecMaps) *)

\* C1: in the forward map returned by compute_type_to_codes, the entry of
\* every handle type H holds every code that the types-to-codes dictionary
\* associates with an ancestor of H.
C1_ForwardEntryHoldsAncestorCodes ==
    ~IsNone(input_type_to_codes) =>
        \A i \in DOMAIN HNames : \A a \in AncestorSet(conf.parents, i) :
            dict_get(conf.manual, a, {})
                \subseteq dict_get(Val(input_type_to_codes), HNames[i], {})

\* The types the reverse map must hold for a code: the types configured for
\* it and the handles below them.
Justifiers(t2c, parents, code) ==
    LET configured == {t \in DOMAIN t2c : code \in t2c[t]} IN
    configured \cup {HNames[i] : i \in {j \in DOMAIN HNames :
                                           AncestorSet(parents, j) \cap configured /= {}}}

\* C4: in the reverse map returned by compute_codes_requiring_type, the entry
\* of a code holds every type configured for it and every descendant handle of
\* such a type, and nothing else.
C4_ReverseEntryIsJustifiersAndDescendants ==
    ~IsNone(codes_requiring_input_type) =>
        \A code \in Range(Codes) :
            dict_get(Val(codes_requiring_input_type), code, {})
                = Justifiers(conf.manual, conf.parents, code)

\* A code is configured for H0 alone, H3 lies two levels below H0, and the
\* reverse map has been computed.
C4_Witness ==
    /\ ~IsNone(codes_requiring_input_type)
    /\ conf.manual = ("H0" :> {"VK_B"})
    /\ conf.parents = << <<>>, <<"H0">>, <<>>, <<"H2", "H1">> >>
    /\ Val(codes_requiring_input_type)["VK_B"] = {"H0", "H1", "H3"}

C11_DescendantsInverseOfAncestors ==
    ~IsNone(handle_data._descendants) =>
        /\ ~IsNone(handle_data._ancestors)
        /\ LET desc == Val(handle_data._descendants)
               anc == Val(handle_data._ancestors)
           IN /\ DOMAIN desc = Range(HNames)
              /\ \A b \in Range(HNames) :
                    LET above == AncestorSet(conf.parents, HIndex(b)) IN
                    \A a \in Range(HNames) :
                        /\ b \in desc[a] <=> a \in Range(anc[b])
                        /\ b \in desc[a] <=> a \in above

\* H3 has parents H2 and H1, H1 has parent H0: H0 has a child and a
\* grandchild, H3 has no descendant and is no descendant of itself.
C11_Witness ==
    /\ ~IsNone(handle_data._descendants)
    /\ conf.parents = << <<>>, <<"H0">>, <<>>, <<"H2", "H1">> >>
    /\ Val(handle_data._descendants)["H0"] = {"H1", "H3"}
    /\ Val(handle_data._descendants)["H2"] = {"H3"}
    /\ Val(handle_data._descendants)["H3"] = {}
    /\ Range(Val(handle_data._ancestors)["H3"]) = {"H2", "H1", "H0"}

----------------------------------------------------------------------------
(* Claims on check_command (Spec).  last.raised holds the argument tuples   *)
(* the command's check passed to record_error, in call order.               *)

CommandChecked == last.op = "check_command"
LastCommand == DiagCommand(reg, last.name)

\* The codes an attribute declares: its tokens other than the commas.
Declared(attr) == IF IsNone(attr) THEN {} ELSE Range(Val(attr)) \ {","}
DeclaredCodes(c) == Declared(c.errorcodes) \cup Declared(c.successcodes)

EndsWith(m, msg) ==
    Len(m) >= Len(msg) /\ SubSeq(m, Len(m) - Len(msg) + 1, Len(m)) = msg

\* The stored errors of entity e whose text, after the prefix, is msg.
Stored(e, msg) == {m \in dict_get(errors, e, {}) : EndsWith(m, msg)}

SuppressedFor(e, msg) == e \in DOMAIN conf.suppressions /\ msg \in conf.suppressions[e]

\* msg was raised n times by the last check and is stored for its entity
\* accordingly: once if raised and not suppressed, else not at all.
RaisedTimes(msg, n) ==
    /\ Occurrences(last.raised, msg) = n
    /\ Cardinality(Stored(last.name, msg))
           = IF n > 0 /\ ~SuppressedFor(last.name, msg) THEN 1 ELSE 0

\* The types reachable from an entity through members that satisfy pred.
DirectTypes(r, name, pred) ==
    LET members == getMemberElems(r, name) IN
    IF IsNone(members) THEN {}
    ELSE {Val(m.type) : m \in {x \in Range(Val(members)) :
                                  ~IsNone(x.type) /\ Predicate(pred, x)}}

RECURSIVE Reach(_, _, _)
Reach(r, pred, found) ==
    LET more == found \cup UNION {DirectTypes(r, t, pred) : t \in found} IN
    IF more = found THEN found ELSE Reach(r, pred, more)

ReachableTypes(r, name, pred) == Reach(r, pred, DirectTypes(r, name, pred))

IsMissingMsg(m) == m /= <<>> /\ m[1] = "Missing expected return code(s)"
IsUnexpectedMsg(m) == m /= <<>> /\ m[1] = "Unexpected return code"

\* The messages of the last check that report codes missing for type t.
MissingFor(t) ==
    {i \in DOMAIN last.raised :
        IsMissingMsg(last.raised[i]) /\ last.raised[i][Len(last.raised[i])] = t}

\* The codes message m names between its first and its last two parts.
NamedCodes(m) == Range(SubSeq(m, 2, Len(m) - 2)) \ {","}

\* C2: a regular command that declares a code gets, for every type T of its
\* input closure with a required code it does not declare, an error naming
\* the missing codes and T; the command with one VkDevice parameter (ancestor
\* VkInstance), VkDevice -> {VK_ERROR_A}, VkInstance -> {VK_B} and only
\* errorcodes="VK_ERROR_A" gets exactly one such error, naming VK_B and VkDevice.
C2_MissingExpectedCodeReported ==
    (CommandChecked /\ ReachesDeepCheck(conf.irregular, LastCommand)) =>
        /\ \A t \in ReachableTypes(reg, last.name, "is_input") :
             LET missing == dict_get(input_type_to_codes, t, {}) \ DeclaredCodes(LastCommand)
             IN missing /= {} =>
                    \E i \in MissingFor(t) : NamedCodes(last.raised[i]) = missing
        /\ ( /\ LastCommand.params = ParamFixtures[1]
             /\ LastCommand.errorcodes = Some(<<"VK_ERROR_A">>)
             /\ LastCommand.successcodes = None
             /\ conf.manual = ("VkDevice" :> {"VK_ERROR_A"}) @@ ("VkInstance" :> {"VK_B"}) )
           => /\ Cardinality({i \in DOMAIN last.raised : IsMissingMsg(last.raised[i])}) = 1
              /\ \E i \in MissingFor("VkDevice") : NamedCodes(last.raised[i]) = {"VK_B"}

\* The messages of the last check that report code as unexpected.
UnexpectedFor(code) ==
    {i \in DOMAIN last.raised :
        IsUnexpectedMsg(last.raised[i]) /\ last.raised[i][2] = code}

C5_OneOverlapErrorIffCodesOverlap ==
    CommandChecked =>
        LET shared == Declared(LastCommand.errorcodes) \cap Declared(LastCommand.successcodes)
        IN RaisedTimes(OverlapMsg, IF shared /= {} THEN 1 ELSE 0)

\* Two codes are shared and one overlap error is stored for the command.
C5_Witness ==
    /\ CommandChecked
    /\ Cardinality(Declared(LastCommand.errorcodes)
                       \cap Declared(LastCommand.successcodes)) = 2
    /\ Cardinality(Stored(last.name, OverlapMsg)) = 1
    /\ fail

HasErrorMarker(code) == code = "VK_ERROR_A"

\* C6: for a command that declares a code, irregular or not, each declared
\* error code without _ERROR_ and each declared success code with _ERROR_
\* gets exactly one error of the basic check, and no other code gets one.
C6_BasicShapeCheckAlwaysRuns ==
    (CommandChecked /\ DeclaredCodes(LastCommand) /= {}) =>
        \A code \in Range(Codes) :
            /\ RaisedTimes(<<code, "in errorcodes but doesn't contain _ERROR_">>,
                   IF code \in Declared(LastCommand.errorcodes) /\ ~HasErrorMarker(code)
                   THEN 1 ELSE 0)
            /\ RaisedTimes(<<code, "in successcodes but contain _ERROR_">>,
                   IF code \in Declared(LastCommand.successcodes) /\ HasErrorMarker(code)
                   THEN 1 ELSE 0)

\* An irregular command with a bad error code and a bad success code: both
\* errors are stored.
C6_Witness ==
    /\ CommandChecked
    /\ should_skip_checking_codes(conf.irregular, last.name)
    /\ LastCommand.errorcodes = Some(<<"VK_B">>)
    /\ LastCommand.successcodes = Some(<<"VK_ERROR_A">>)
    /\ conf.suppressions = EmptyDict
    /\ Cardinality(Stored(last.name, <<"VK_B", "in errorcodes but doesn't contain _ERROR_">>)) = 1
    /\ Cardinality(Stored(last.name, <<"VK_ERROR_A", "in successcodes but contain _ERROR_">>)) = 1

----------------------------------------------------------------------------
(* Claims on the report of check() (Spec) *)

\* The entity names of the registries, as sorted() orders them.
SortedNames ==
    <<"Extent", "VK_ext_a", "VK_ext_b", "VkDevice", "VkExtent", "VkFlagsX", "VkInfo",
      "VkInstance", "uint32_t", "vkAux", "vkCmd">>

Rank(name) == CHOOSE i \in DOMAIN SortedNames : SortedNames[i] = name

\* C9: at the end of check() one section has been printed per entity with an
\* error or a warning, the sections are in sorted order of entity name, and
\* each section lists all the entity's errors before all its warnings.
C9_SectionsSortedErrorsBeforeWarnings ==
    pc = "done" =>
        /\ {printed[i].entity : i \in DOMAIN printed} = DOMAIN errors \cup DOMAIN warnings
        /\ \A i, j \in DOMAIN printed : i < j =>
               Rank(printed[i].entity) < Rank(printed[j].entity)
        /\ \A i \in DOMAIN printed :
             LET lines == printed[i].lines
                 e == printed[i].entity
             IN /\ \A k, l \in DOMAIN lines :
                       (lines[k].kind = "Warning:" /\ lines[l].kind = "Error:") => l < k
                /\ {lines[k].m : k \in {x \in DOMAIN lines : lines[x].kind = "Error:"}}
                       = dict_get(errors, e, {})
                /\ {lines[k].m : k \in {x \in DOMAIN lines : lines[x].kind = "Warning:"}}
                       = dict_get(warnings, e, {})
                /\ Len(lines) = Cardinality(dict_get(errors, e, {}))
                                    + Cardinality(dict_get(warnings, e, {}))

\* The names of a list of entities, in order.
Names(seq) == [i \in DOMAIN seq |-> seq[i].name]

\* What check() has to check, in order: the commands, the types that carry a
\* category, the extensions supported by the active API.
ExpectedChecks(r) ==
    LET HasCategory(t) == t.category /= ""
        Supported(e) == e.supported = "vulkan"
    IN Names(r.cmddict) \o Names(SelectSeq(r.typedict, HasCategory))
           \o Names(SelectSeq(r.extdict, Supported))

IsPrefix(a, b) == Len(a) <= Len(b) /\ SubSeq(b, 1, Len(a)) = a

\* C15: check() never aborts on a recorded error.  Whatever has been
\* recorded, the entities checked so far are a prefix of: every command, then
\* every type with a category, then every extension with the active API tag,
\* each once and in registry order; when the loops are over all of them have
\* been checked, and no type without category or extension with another tag
\* has; a step files messages only under the entity it has made the context.
C15_CheckNeverAborts ==
    /\ [](/\ IsPrefix(log, ExpectedChecks(reg))
          /\ pc \in {"collect", "report", "done"} => log = ExpectedChecks(reg)
          /\ DOMAIN errors \cup DOMAIN warnings \subseteq Range(log))
    /\ [][\A e \in DOMAIN errors' \cup DOMAIN warnings' :
              (dict_get(errors', e, {}) /= dict_get(errors, e, {})
                  \/ dict_get(warnings', e, {}) /= dict_get(warnings, e, {}))
              => entity' = Some(e) /\ log' = Append(log, e)]_vars

\* The first command, a later struct and a later extension all have errors,
\* and everything has been checked; the type without category and the
\* extension of another API have not.
C15_Witness ==
    /\ pc = "done"
    /\ fail
    /\ {"vkCmd", "Extent", "VK_ext_a"} \subseteq DOMAIN errors
    /\ log = ExpectedChecks(reg)
    /\ Len(log) = 8
    /\ "uint32_t" \notin Range(log)
    /\ "VK_ext_b" \notin Range(log)

----------------------------------------------------------------------------
(* Claims on the diagnostics (SpecDiag).  After record_error or             *)
(* record_warning, last.raised[1] is the argument tuple of the call.        *)

ErrorRecorded == \E e \in DOMAIN errors : errors[e] /= {}

\* C7: the failure flag is true exactly if an error message has been added to
\* the error accumulator; record_warning changes neither the flag nor the
\* error accumulator and removes no warning; the flag is never reset.
C7_FailIffErrorRecorded ==
    /\ [](fail <=> ErrorRecorded)
    /\ [][ /\ last'.op = "record_warning" =>
                /\ fail' = fail
                /\ errors' = errors
                /\ \A e \in DOMAIN warnings :
                       e \in DOMAIN warnings' /\ warnings[e] \subseteq warnings'[e]
           /\ fail => fail' ]_vars

\* A warning has just been stored, after an error; the flag is still set.
C7_Witness ==
    /\ last.op = "record_warning"
    /\ \E m \in dict_get(warnings, last.name, {}) : EndsWith(m, last.raised[1])
    /\ ErrorRecorded
    /\ fail

\* The stored messages of a bucket of entity e whose text is msg.
StoredIn(bucket, e, msg) == {m \in dict_get(bucket, e, {}) : EndsWith(m, msg)}

\* C8: with entity E as context, a record_error or record_warning whose
\* rendered text is registered as a suppression for E changes no bucket and
\* not the flag; one whose text is not registered for E (whatever is
\* registered for other entities, or with a prefix) is stored in E's bucket,
\* and record_error then sets the flag.
C8_SuppressionDropsExactTextOfEntity ==
    [][ last'.op \in {"record_error", "record_warning"} =>
          LET E == Val(entity)
              text == last'.raised[1]
          IN IF SuppressedFor(E, text)
             THEN errors' = errors /\ warnings' = warnings /\ fail' = fail
             ELSE IF last'.op = "record_error"
                  THEN StoredIn(errors', E, text) /= {} /\ fail' /\ warnings' = warnings
                  ELSE StoredIn(warnings', E, text) /= {} /\ errors' = errors
      ]_vars

\* The overlap message has just been dropped for an entity that already has
\* another error; the same text is not registered for the other entity.
C8_Witness ==
    /\ last.op = "record_error"
    /\ last.raised[1] = OverlapMsg
    /\ SuppressedFor(Val(entity), OverlapMsg)
    /\ \E other \in DiagEntities \ {Val(entity)} :
           ~SuppressedFor(other, OverlapMsg) /\ StoredIn(errors, other, OverlapMsg) /= {}
    /\ StoredIn(errors, Val(entity), OverlapMsg) = {}
    /\ StoredIn(errors, Val(entity), <<"Name does not start with", "Vk">>) /= {}

----------------------------------------------------------------------------
(* Claims on the referenced-type closures (SpecClosure) *)

\* The keys whose closure under pred has been memoized / is being computed.
Done(pred) == {k \in DOMAIN Memo(pred) : ~IsNone(Memo(pred)[k])}
InProgress(pred) == {k \in DOMAIN Memo(pred) : IsNone(Memo(pred)[k])}
Closure(pred, e) == Val(Memo(pred)[e])

OnStack(pred) == {stack[i].key : i \in {j \in DOMAIN stack : stack[j].pred = pred}}

\* C12: on every struct graph, with a struct that references itself or a
\* cycle through a second struct included, every closure query returns: it
\* raises nothing, a key whose computation is in progress is never entered
\* again (no key is on the stack twice, none is computed twice), the nesting
\* is bounded by the number of types, and each memoized value is a set of
\* type names of the registry.
C12_ClosureQueryTerminates ==
    /\ [](/\ pc /= "raised"
          /\ \A i, j \in DOMAIN stack :
                 i /= j => <<stack[i].pred, stack[i].key>> /= <<stack[j].pred, stack[j].key>>
          /\ \A i, j \in DOMAIN log : i /= j => log[i] /= log[j]
          /\ Len(stack) <= Cardinality(TypeNames(reg.typedict))
          /\ \A pred \in Predicates :
                 /\ InProgress(pred) = OnStack(pred)
                 /\ \A k \in Done(pred) : Closure(pred, k) \subseteq TypeNames(reg.typedict))
    /\ (stack /= <<>>) ~> (stack = <<>> /\ last.op = "return")

\* VkA and VkB reference each other; the query of VkA has returned both.
C12_Witness ==
    /\ stack = <<>>
    /\ last.op = "return"
    /\ last.name = "VkA"
    /\ "VkB" \in DirectTypes(reg, "VkA", "is_api_type")
    /\ "VkA" \in DirectTypes(reg, "VkB", "is_api_type")
    /\ "VkA" \in Done("is_api_type")
    /\ Closure("is_api_type", "VkA") = {"VkA", "VkB"}

\* The types reachable from cur along a path of members that satisfy pred
\* and that visits no type twice.
RECURSIVE AcyclicReach(_, _, _, _)
AcyclicReach(r, pred, cur, visited) ==
    UNION {{t} \cup AcyclicReach(r, pred, t, visited \cup {t}) :
              t \in DirectTypes(r, cur, pred) \ visited}

\* C13: whatever the order of the queries, closure(E) holds every type
\* reachable from E along an acyclic path of reference edges (here: of edges
\* the predicate admits); with VkA referencing VkB and VkD and VkB
\* referencing VkA, closure(VkB) holds VkD.
C13_ClosureHoldsAcyclicReachableTypes ==
    stack = <<>> =>
        \A pred \in Predicates : \A E \in Done(pred) :
            AcyclicReach(reg, pred, E, {E}) \subseteq Closure(pred, E)

\* The types the members of a type reference, whatever the predicate says.
MemberTypes(r, name) ==
    LET members == getMemberElems(r, name) IN
    IF IsNone(members) THEN {}
    ELSE {Val(m.type) : m \in {x \in Range(Val(members)) : ~IsNone(x.type)}}

\* C14 as claimed: the predicate filters the entity's own members only; once
\* a type T is in closure(entity, predicate), every type that any member of T
\* references is in it too.
C14_PredicateFiltersOwnMembersOnly ==
    stack = <<>> =>
        \A pred \in Predicates : \A E \in Done(pred) :
            /\ DirectTypes(reg, E, pred) \subseteq Closure(pred, E)
            /\ \A T \in Closure(pred, E) : MemberTypes(reg, T) \subseteq Closure(pred, E)

\* No type reachable from E through admitted members, E included, reaches itself.
NoCycleFrom(r, pred, E) ==
    \A T \in {E} \cup ReachableTypes(r, E, pred) : T \notin ReachableTypes(r, T, pred)

\* C14 amended: the predicate filters the members at every level.  The
\* closure holds the types of the entity's own members that satisfy the
\* predicate; it holds a type only if that type is reachable from the entity
\* through members that all satisfy the predicate; and it is exactly the set
\* of the types so reachable when no reference cycle lies on the way.
C14_PredicateFiltersEveryLevel ==
    stack = <<>> =>
        \A pred \in Predicates : \A E \in Done(pred) :
            /\ DirectTypes(reg, E, pred) \subseteq Closure(pred, E)
            /\ Closure(pred, E) \subseteq ReachableTypes(reg, E, pred)
            /\ NoCycleFrom(reg, pred, E) =>
                   Closure(pred, E) = ReachableTypes(reg, E, pred)

\* VkA references VkB, whose only member is a non-const pointer to VkD: VkD
\* is in the API-type closure of VkA and not in its input closure.
C14_Witness ==
    /\ stack = <<>>
    /\ "VkA" \in Done("is_input") \cap Done("is_api_type")
    /\ MemberTypes(reg, "VkA") = {"VkB"}
    /\ MemberTypes(reg, "VkB") = {"VkD"}
    /\ Closure("is_input", "VkA") = {"VkB"}
    /\ Closure("is_api_type", "VkA") = {"VkB", "VkD"}

\* The type names of the API's namespace.
ApiTypeNames == {"VkA", "VkB", "VkD"}

\* What the claim calls input, read off the declaration.
InputByDeclaration(m) ==
    /\ Val(m.type) \in ApiTypeNames
    /\ (m.decl.const \/ (~m.decl.pointer /\ ~m.decl.array))

\* The members of a type, none for a type that is no struct.
MembersOf(r, name) ==
    IF IsNone(getMemberElems(r, name)) THEN {} ELSE Range(Val(getMemberElems(r, name)))

AllMembers(r) == UNION {Range(r.typedict[i].members) : i \in DOMAIN r.typedict}

\* C16: is_input(member) is true exactly if the member is of the API's
\* namespace and is const-qualified or neither a pointer nor an array; the
\* input closure starts from exactly the types of such members.
C16_IsInputIffApiAndConstOrByValue ==
    /\ \A m \in AllMembers(reg) : is_input(m) <=> InputByDeclaration(m)
    /\ (last.op = "compute" /\ last.raised[1] = "is_input") =>
           last.raised[2] = {Val(m.type) : m \in {x \in MembersOf(reg, last.name) :
                                                     InputByDeclaration(x)}}

\* The compute of VkA has just admitted VkB through a const pointer that is
\* also an array, beside a struct passed by value.
C16_Witness ==
    /\ last.op = "compute"
    /\ last.name = "VkA"
    /\ last.raised[1] = "is_input"
    /\ \E m \in Range(FindType(reg.typedict, "VkA").members) :
           /\ m.type = Some("VkB")
           /\ m.decl = [const |-> TRUE, pointer |-> TRUE, array |-> TRUE]
    /\ last.raised[2] = {"VkB", "VkD"}

----------------------------------------------------------------------------
(* Claims on the parameter annotations (SpecParams) *)

\* A command or a struct has just been checked; its params or members.
ParamsChecked == last.op = "check_command" \/ (last.op = "check_type" /\ last.name = "VkInfo")
CheckedParams ==
    IF last.op = "check_command" THEN LastCommand.params
    ELSE FindType(reg.typedict, last.name).members

\* The fields of an attribute: its tokens between the commas.
Fields(attr) ==
    LET NotComma(tok) == tok /= "," IN
    IF IsNone(attr) THEN <<>> ELSE SelectSeq(Val(attr), NotComma)

MarkerMsg(p) == <<"Comma-separated list in externsync attribute includes 'true' for", p.name>>
OtherMemberMsg(p, f) ==
    <<"externsync attribute for", p.name, "refers to some other member/parameter:", f>>

\* The names an attribute of the drawn registries may hold.
FieldNames == {"true", "pB", "count", "other", "missing", "null-terminated", "1"}

\* C17: for every parameter of a checked command or struct with an externsync
\* annotation: the marker in a list of more than one entry raises the marker
\* error for the parameter (once per marker entry; it is stored once); every
\* entry that is not the marker and differs from the parameter's own name
\* raises the error that cites that name; the marker alone and the
\* parameter's own name raise nothing.
C17_ExternSyncEntriesChecked ==
    ParamsChecked =>
        \A i \in DOMAIN CheckedParams :
            LET p == CheckedParams[i]
                F == Fields(p.externsync)
            IN /\ RaisedTimes(MarkerMsg(p),
                              IF Len(F) > 1 THEN Occurrences(F, "true") ELSE 0)
               /\ \A f \in FieldNames :
                      RaisedTimes(OtherMemberMsg(p, f),
                                  IF f /= "true" /\ f /= p.name THEN Occurrences(F, f) ELSE 0)

\* pB is annotated "true,other": both errors are stored for the command,
\* while count, annotated with the marker alone, has none.
C17_Witness ==
    /\ last.op = "check_command"
    /\ CheckedParams[2].externsync = Some(<<"true", ",", "other">>)
    /\ CheckedParams[1].externsync = Some(<<"true">>)
    /\ Stored("vkCmd", MarkerMsg(CheckedParams[2])) /= {}
    /\ Stored("vkCmd", OtherMemberMsg(CheckedParams[2], "other")) /= {}
    /\ Stored("vkCmd", MarkerMsg(CheckedParams[1])) = {}
    /\ fail

\* The length fields that name no parameter.
NamesNoParameter(f) == f \in {"null-terminated", "1"}

MissingLenMsg(p, f) ==
    <<"References a non-existent parameter/member in the length of", p.name, ":", f>>

\* C18: for every parameter of a checked command or struct and every entry
\* of its length annotation that names a parameter, the error naming the
\* missing reference is raised exactly if no parameter of the same command
\* or struct has that name; entries that name no parameter raise nothing.
C18_LengthNamesExistingParameter ==
    ParamsChecked =>
        \A i \in DOMAIN CheckedParams :
            LET p == CheckedParams[i]
                F == Fields(p.len)
            IN \A f \in FieldNames :
                   RaisedTimes(MissingLenMsg(p, f),
                               IF /\ ~NamesNoParameter(f)
                                  /\ \A j \in DOMAIN CheckedParams : CheckedParams[j].name /= f
                               THEN Occurrences(F, f) ELSE 0)

\* The struct member pB has len="count,missing": count is a sibling, missing
\* is not, and exactly that error is stored for the struct.
C18_Witness ==
    /\ last.op = "check_type"
    /\ last.name = "VkInfo"
    /\ CheckedParams[2].len = Some(<<"count", ",", "missing">>)
    /\ Stored("VkInfo", MissingLenMsg(CheckedParams[2], "missing")) /= {}
    /\ Stored("VkInfo", MissingLenMsg(CheckedParams[2], "count")) = {}
    /\ Cardinality(dict_get(errors, "VkInfo", {})) = 1

----------------------------------------------------------------------------
(* Claims on the caches of HandleData (SpecCache) *)

\* C19: each derived structure of HandleData is computed at most once; a
\* read of a property whose structure has been computed before returns the
\* stored value and computes nothing, on every registry, one without handle
\* types included, and no stored value changes afterwards.
C19_DerivedStructuresComputedOnce ==
    /\ \A f \in CacheFields : handle_data.computed[f] <= 1
    /\ last.op \in {"handle_types", "ancestors_dict", "descendants_dict"} =>
           LET before == last.raised[1] IN
           \A f \in CacheFields :
               ~IsNone(before[f]) =>
                   /\ handle_data[f] = before[f]
                   /\ handle_data.computed[f] = before.computed[f]

====
